---- MODULE Spec2Model ----
(***************************************************************************)
(* Model of the generic Result<V, E> container of src/src/status-error.ts  *)
(* (class Result, lines 47-287): its two private fields, its three static  *)
(* constructors and its chainable methods.                                 *)
(*                                                                         *)
(* A JavaScript value is a record with a `typ` field.  A callback passed   *)
(* to a method is called at most once per method call, so it is modelled   *)
(* by the value it returns on that call, drawn from a small set; every     *)
(* call a method makes is written to a call log.                           *)
(***************************************************************************)
EXTENDS Integers, Sequences, FiniteSets

\* ---------------------------------------------------------------- bounds
\* longest array among the data values
MaxLen == 1
\* largest number of own enumerable string keys of a plain object
MaxKeys == 1
\* number of Result objects one behaviour allocates
MaxResults == 3

\* ---------------------------------------------------------------- values
Undefined == [typ |-> "undefined"]
Null == [typ |-> "null"]

Primitives ==
    {Undefined, Null}
        \cup {[typ |-> "number", n |-> n] : n \in {0, 42}}
        \cup {[typ |-> "string", s |-> s] : s \in {"", "test"}}
        \cup {[typ |-> "boolean", b |-> b] : b \in BOOLEAN}

\* an array of length len of which `keys` indices are present (keys < len: holes)
Arrays ==
    UNION {{[typ |-> "array", len |-> l, keys |-> k] : k \in 0..l} : l \in 0..MaxLen}

\* a plain object with `keys` own enumerable string-keyed properties
Objects == {[typ |-> "object", keys |-> k] : k \in 0..MaxKeys}

\* a function value, with no own enumerable property
Functions == {[typ |-> "function", keys |-> 0]}

\* the data a Result may wrap (the type parameter V)
Values == Primitives \cup Arrays \cup Objects \cup Functions

\* new StatusError(message, status): the constructor sets status, name and
\* details as own enumerable properties
StatusError(message, status) ==
    [typ |-> "error", message |-> message, status |-> status, keys |-> 3]

NotFound == StatusError("Not Found", 404)
Internal == StatusError("Internal Error", 500)
BadRequest == StatusError("Bad Request", 400)

\* what the function passed to apply returns (the type parameter T)
TransformOutputs ==
    {Undefined, [typ |-> "number", n |-> 0], [typ |-> "string", s |-> "test"]}

\* the newValue arguments of onFailureReturn and onErrorReturn
NewValues == {Undefined, Null, [typ |-> "number", n |-> 42]}

\* what the two handlers passed to fold return (the type parameters R and L)
HandlerOutputs ==
    {[typ |-> "string", s |-> "Success"], [typ |-> "string", s |-> "Error"], Undefined}

\* the errors a Result may carry (the type parameter E extends Error)
Errors == {NotFound, Internal, BadRequest}

\* JavaScript ToBoolean, as used by `if (x)` and `!x`
Truthy(v) ==
    CASE v.typ = "undefined" -> FALSE
      [] v.typ = "null" -> FALSE
      [] v.typ = "number" -> v.n # 0
      [] v.typ = "string" -> v.s # ""
      [] v.typ = "boolean" -> v.b
      [] OTHER -> TRUE

\* the typeof operator
TypeOf(v) ==
    CASE v.typ \in {"null", "array", "object", "error", "Result"} -> "object"
      [] OTHER -> v.typ

\* Array.isArray
IsArray(v) == v.typ = "array"

\* Object.keys(v).length, for a non-null v whose typeof is "object"
ObjectKeysLength(v) == v.keys

\* ---------------------------------------------------------------- state
VARIABLES
    cur,        \* the Result the caller holds: the receiver of the next method call
    closure,    \* the function the last fromNullable(data) returned, or Undefined
    last,       \* the last call: its name, receiver, arguments, return value, call log
    nextId      \* the identity the next `new Result()` gets

vars == <<cur, closure, last, nextId>>

\* one entry of the call log: callback `fn` was called with arg and returned out
Call(fn, arg, out) == [fn |-> fn, arg |-> arg, out |-> out]

\* the arguments of a call: a value, an error, and whether a filter was passed
Args(value, error, filter) == [value |-> value, error |-> error, filter |-> filter]

NoArgs == Args(Undefined, Undefined, FALSE)

\* `new Result<V, E>()`: both private fields are undefined
NewResult(id) == [typ |-> "Result", id |-> id, _error |-> Undefined, _data |-> Undefined]

\* static failure(error)
failure(id, error) == [NewResult(id) EXCEPT !._error = error]

\* of, had it stored the value only when it is truthy
ofTruthyOnly(id, value) ==
    IF Truthy(value) THEN [NewResult(id) EXCEPT !._data = value] ELSE NewResult(id)

\* static of(value)
of(id, value) == [NewResult(id) EXCEPT !._data = value]

\* static fromNullable(data): the returned arrow function, which captures
\* data; an array or object is captured by reference, so `data` is what it
\* holds now and `initial` records what it held when fromNullable was called
fromNullable(data) == [typ |-> "closure", data |-> data, initial |-> data]

\* what one statement of the caller can make of the array or object d that a
\* closure refers to: push or pop an element, set or delete a key
Changed(d) ==
    CASE d.typ = "array" ->
            {a \in Arrays : \/ a.len = d.len + 1 /\ a.keys = d.keys + 1
                            \/ a.len = d.len - 1 /\ a.keys \in {d.keys, d.keys - 1}}
      [] d.typ = "object" -> {o \in Objects : o.keys \in {d.keys + 1, d.keys - 1}}
      [] OTHER -> {}

\* the arrow function, had it tested `!data` in place of the three checks
fromNullableClosureFalsy(c, id, error) ==
    IF ~Truthy(c.data) THEN failure(id, error) ELSE of(id, c.data)

\* the arrow function, had it lacked the check for empty objects
fromNullableClosureNoObjectCheck(c, id, error) ==
    IF c.data = Null \/ c.data = Undefined
    THEN failure(id, error)
    ELSE IF IsArray(c.data) /\ c.data.len = 0
    THEN failure(id, error)
    ELSE of(id, c.data)

\* the arrow function fromNullable returned, applied to error
fromNullableClosure(c, id, error) ==
    IF c.data = Null \/ c.data = Undefined
    THEN failure(id, error)
    ELSE IF IsArray(c.data) /\ c.data.len = 0
    THEN failure(id, error)
    ELSE IF TypeOf(c.data) = "object" /\ ObjectKeysLength(c.data) = 0
    THEN failure(id, error)
    ELSE of(id, c.data)

\* Each method is an operator of the receiver `this`, the identity a new
\* Result would get, the arguments, and the value each callback returns if it
\* is called; it yields the return value and the calls made.

\* apply, had it tested `this._data` as peek does
applyIfData(this, id, out) ==
    IF Truthy(this._data)
    THEN [ret |-> of(id, out), calls |-> <<Call("func", this._data, out)>>]
    ELSE [ret |-> failure(id, this._error), calls |-> <<>>]

\* apply(func), out = func(this._data)
apply(this, id, out) ==
    IF ~Truthy(this._error)
    THEN [ret |-> of(id, out), calls |-> <<Call("func", this._data, out)>>]
    ELSE [ret |-> failure(id, this._error), calls |-> <<>>]

\* applyOnFailure, had it called func and kept the original error
applyOnFailureKeepsError(this, id, out) ==
    IF Truthy(this._error)
    THEN [ret |-> failure(id, this._error), calls |-> <<Call("func", this._error, out)>>]
    ELSE [ret |-> of(id, this._data), calls |-> <<>>]

\* applyOnFailure(func), out = func(this._error)
applyOnFailure(this, id, out) ==
    IF Truthy(this._error)
    THEN [ret |-> failure(id, out), calls |-> <<Call("func", this._error, out)>>]
    ELSE [ret |-> of(id, this._data), calls |-> <<>>]

\* fold, had it tested `this._data` as peek does
foldIfData(this, outData, outError) ==
    IF Truthy(this._data)
    THEN [ret |-> outData, calls |-> <<Call("onData", this._data, outData)>>]
    ELSE [ret |-> outError, calls |-> <<Call("onError", this._error, outError)>>]

\* fold(onData, onError), outData = onData(this._data), outError = onError(this._error)
fold(this, outData, outError) ==
    IF ~Truthy(this._error)
    THEN [ret |-> outData, calls |-> <<Call("onData", this._data, outData)>>]
    ELSE [ret |-> outError, calls |-> <<Call("onError", this._error, outError)>>]

\* failOnCondition, had it kept the value next to the new error, as the
\* example in its doc comment prints
failOnConditionKeepsData(this, id, out, error) ==
    IF Truthy(this._error)
    THEN [ret |-> failure(id, this._error), calls |-> <<>>]
    ELSE IF out
    THEN [ret |-> [failure(id, error) EXCEPT !._data = this._data],
          calls |-> <<Call("condition", this._data, [typ |-> "boolean", b |-> out])>>]
    ELSE [ret |-> of(id, this._data),
          calls |-> <<Call("condition", this._data, [typ |-> "boolean", b |-> out])>>]

\* failOnCondition(condition, error), out = condition(this._data)
failOnCondition(this, id, out, error) ==
    IF Truthy(this._error)
    THEN [ret |-> failure(id, this._error), calls |-> <<>>]
    ELSE IF out
    THEN [ret |-> failure(id, error),
          calls |-> <<Call("condition", this._data, [typ |-> "boolean", b |-> out])>>]
    ELSE [ret |-> of(id, this._data),
          calls |-> <<Call("condition", this._data, [typ |-> "boolean", b |-> out])>>]

\* onFailureReturn, had it kept the error next to the new value, as the
\* example in its doc comment prints
onFailureReturnKeepsError(this, id, newValue, hasFilter, out) ==
    IF ~Truthy(this._error)
    THEN [ret |-> of(id, this._data), calls |-> <<>>]
    ELSE IF ~hasFilter
    THEN [ret |-> [of(id, newValue) EXCEPT !._error = this._error], calls |-> <<>>]
    ELSE IF out
    THEN [ret |-> [of(id, newValue) EXCEPT !._error = this._error],
          calls |-> <<Call("filter", this._error, [typ |-> "boolean", b |-> out])>>]
    ELSE [ret |-> failure(id, this._error),
          calls |-> <<Call("filter", this._error, [typ |-> "boolean", b |-> out])>>]

\* onFailureReturn, had it replaced the value without consulting the filter
onFailureReturnNoFilter(this, id, newValue, hasFilter, out) ==
    IF ~Truthy(this._error)
    THEN [ret |-> of(id, this._data), calls |-> <<>>]
    ELSE [ret |-> of(id, newValue), calls |-> <<>>]

\* onFailureReturn(newValue, filter?), hasFilter: a filter was passed,
\* out = filter(this._error)
onFailureReturn(this, id, newValue, hasFilter, out) ==
    IF ~Truthy(this._error)
    THEN [ret |-> of(id, this._data), calls |-> <<>>]
    ELSE IF ~hasFilter
    THEN [ret |-> of(id, newValue), calls |-> <<>>]
    ELSE IF out
    THEN [ret |-> of(id, newValue),
          calls |-> <<Call("filter", this._error, [typ |-> "boolean", b |-> out])>>]
    ELSE [ret |-> failure(id, this._error),
          calls |-> <<Call("filter", this._error, [typ |-> "boolean", b |-> out])>>]

\* the statusFilter arguments of onErrorReturn: omitted, or a number
StatusFilters ==
    {Undefined} \cup {[typ |-> "number", n |-> n] : n \in {0, 404}}

\* onErrorReturn(newValue, statusFilter?) of the status-specialised Result<V>,
\* whose fields, failure and of are those of the generic class with
\* E = StatusError; `===` is reached only for a truthy, so numeric, statusFilter
onErrorReturn(this, id, newValue, statusFilter) ==
    IF ~Truthy(this._error)
    THEN [ret |-> of(id, this._data), calls |-> <<>>]
    ELSE IF ~Truthy(statusFilter) \/ statusFilter.n = this._error.status
    THEN [ret |-> of(id, newValue), calls |-> <<>>]
    ELSE [ret |-> failure(id, this._error), calls |-> <<>>]

\* onFailurePeek, had it called func without testing the error
onFailurePeekUnguarded(this) ==
    [ret |-> this, calls |-> <<Call("func", this._error, Undefined)>>]

\* onFailurePeek(func)
onFailurePeek(this) ==
    IF Truthy(this._error)
    THEN [ret |-> this, calls |-> <<Call("func", this._error, Undefined)>>]
    ELSE [ret |-> this, calls |-> <<>>]

\* peek(func)
peek(this) ==
    IF Truthy(this._data)
    THEN [ret |-> this, calls |-> <<Call("func", this._data, Undefined)>>]
    ELSE [ret |-> this, calls |-> <<>>]

\* ---------------------------------------------------------------- actions
\* no Result and no closure exists yet
Init ==
    /\ cur = Undefined
    /\ closure = Undefined
    /\ last = [op |-> "none", recv |-> Undefined, args |-> NoArgs,
               ret |-> Undefined, calls |-> <<>>]
    /\ nextId = 1

\* a call returned r.ret after making r.calls; a returned Result is the one
\* the caller goes on with
Return(op, recv, args, r) ==
    /\ last' = [op |-> op, recv |-> recv, args |-> args, ret |-> r.ret, calls |-> r.calls]
    /\ cur' = IF r.ret.typ = "Result" THEN r.ret ELSE cur
    /\ nextId' = IF r.ret.typ = "Result" /\ r.ret.id = nextId THEN nextId + 1 ELSE nextId

CanAllocate == nextId <= MaxResults

HasReceiver == cur.typ = "Result"

Of ==
    /\ CanAllocate
    /\ \E value \in Values :
        Return("of", Undefined, Args(value, Undefined, FALSE),
               [ret |-> of(nextId, value), calls |-> <<>>])
    /\ UNCHANGED closure

Failure ==
    /\ CanAllocate
    /\ \E error \in Errors :
        Return("failure", Undefined, Args(Undefined, error, FALSE),
               [ret |-> failure(nextId, error), calls |-> <<>>])
    /\ UNCHANGED closure

\* step one: fromNullable(data) returns the arrow function
FromNullable ==
    /\ \E data \in Values :
        /\ closure' = fromNullable(data)
        /\ last' = [op |-> "fromNullable", recv |-> Undefined,
                    args |-> Args(data, Undefined, FALSE),
                    ret |-> closure', calls |-> <<>>]
    /\ UNCHANGED <<cur, nextId>>

\* step two: the arrow function is applied to an error
FromNullableClosure ==
    /\ CanAllocate
    /\ closure # Undefined
    /\ \E error \in Errors :
        Return("fromNullableClosure", closure, Args(closure.data, error, FALSE),
               [ret |-> fromNullableClosure(closure, nextId, error), calls |-> <<>>])
    /\ UNCHANGED closure

\* between or after the two steps the caller changes the array or object it
\* passed to fromNullable
ChangeData ==
    /\ closure # Undefined
    /\ \E d \in Changed(closure.data) : closure' = [closure EXCEPT !.data = d]
    /\ UNCHANGED <<cur, last, nextId>>

Apply ==
    /\ CanAllocate
    /\ HasReceiver
    /\ \E out \in TransformOutputs : Return("apply", cur, NoArgs, apply(cur, nextId, out))
    /\ UNCHANGED closure

ApplyOnFailure ==
    /\ CanAllocate
    /\ HasReceiver
    /\ \E out \in Errors :
        Return("applyOnFailure", cur, NoArgs, applyOnFailure(cur, nextId, out))
    /\ UNCHANGED closure

Fold ==
    /\ HasReceiver
    /\ \E outData \in HandlerOutputs, outError \in HandlerOutputs :
        /\ outData # outError
        /\ Return("fold", cur, NoArgs, fold(cur, outData, outError))
    /\ UNCHANGED closure

FailOnCondition ==
    /\ CanAllocate
    /\ HasReceiver
    /\ \E out \in BOOLEAN, error \in Errors :
        Return("failOnCondition", cur, Args(Undefined, error, FALSE),
               failOnCondition(cur, nextId, out, error))
    /\ UNCHANGED closure

OnFailureReturn ==
    /\ CanAllocate
    /\ HasReceiver
    /\ \E newValue \in NewValues, hasFilter \in BOOLEAN, out \in BOOLEAN :
        /\ hasFilter \/ ~out
        /\ Return("onFailureReturn", cur, Args(newValue, Undefined, hasFilter),
               onFailureReturn(cur, nextId, newValue, hasFilter, out))
    /\ UNCHANGED closure

OnErrorReturn ==
    /\ CanAllocate
    /\ HasReceiver
    /\ \E newValue \in NewValues, statusFilter \in StatusFilters :
        Return("onErrorReturn", cur,
               [value |-> newValue, error |-> Undefined,
                filter |-> statusFilter # Undefined, statusFilter |-> statusFilter],
               onErrorReturn(cur, nextId, newValue, statusFilter))
    /\ UNCHANGED closure

OnFailurePeek ==
    /\ HasReceiver
    /\ Return("onFailurePeek", cur, NoArgs, onFailurePeek(cur))
    /\ UNCHANGED closure

Peek ==
    /\ HasReceiver
    /\ Return("peek", cur, NoArgs, peek(cur))
    /\ UNCHANGED closure

Next ==
    \/ Of
    \/ Failure
    \/ FromNullable
    \/ FromNullableClosure
    \/ ChangeData
    \/ Apply
    \/ ApplyOnFailure
    \/ Fold
    \/ FailOnCondition
    \/ OnFailureReturn
    \/ OnErrorReturn
    \/ OnFailurePeek
    \/ Peek

Spec == Init /\ [][Next]_vars

\* ---------------------------------------------------------------- properties
\* the two states of a Result, as its `error` accessor tells them apart
IsFailure(r) == r._error # Undefined
IsSuccess(r) == r._error = Undefined

\* the Results of a state: the one held, the last receiver, the last return value
ResultsInState == {x \in {cur, last.recv, last.ret} : x.typ = "Result"}

\* the last call was method op on a receiver
Called(op) == last.op = op

C2_Constructors ==
    /\ Called("of") =>
        /\ IsSuccess(last.ret)
        /\ last.ret._data = last.args.value
        /\ last.ret._error = Undefined
    /\ Called("failure") =>
        /\ IsFailure(last.ret)
        /\ last.ret._error = last.args.error

\* C2 witness: Result.of(null) was called
C2_Witness == Called("of") /\ last.args.value = Null /\ last.ret._data = Null

\* the emptiness C3 states: null, undefined, a sequence with zero elements, or
\* a non-primitive keyed value (an array, a plain object, an error object; a
\* function is callable, not keyed) with zero own enumerable members
EmptyAsStated(d) ==
    \/ d = Null
    \/ d = Undefined
    \/ d.typ = "array" /\ d.len = 0
    \/ d.typ \in {"array", "object", "error"} /\ d.keys = 0

\* C3: fromNullable(d)(e) is Failure(e) exactly when d is empty as stated, and
\* otherwise Success(d) with d unchanged (0, "" and false included).
C3_FromNullable ==
    Called("fromNullableClosure") =>
        IF EmptyAsStated(last.args.value)
        THEN last.ret._error = last.args.error /\ last.ret._data = Undefined
        ELSE last.ret._data = last.args.value /\ last.ret._error = Undefined

\* C3 witness: fromNullable(0)(e) was called and gave a Success wrapping 0
C3_Witness ==
    /\ Called("fromNullableClosure")
    /\ last.args.value = [typ |-> "number", n |-> 0]
    /\ IsSuccess(last.ret)

\* C4: peek(f) calls f exactly once with the value when the receiver is a
\* Success, whatever the value, never when it is a Failure, and returns the
\* receiver itself.
C4_Peek ==
    Called("peek") =>
        /\ IsSuccess(last.recv) => last.calls = <<Call("func", last.recv._data, Undefined)>>
        /\ IsFailure(last.recv) => last.calls = <<>>
        /\ last.ret = last.recv

\* C5: apply(f) on Success(v) calls f exactly once with v and yields a new
\* Success(f(v)); on Failure(e) it never calls f and yields a Failure with e.
C5_Apply ==
    Called("apply") =>
        IF IsSuccess(last.recv)
        THEN /\ Len(last.calls) = 1
             /\ last.calls[1].fn = "func"
             /\ last.calls[1].arg = last.recv._data
             /\ IsSuccess(last.ret)
             /\ last.ret._data = last.calls[1].out
             /\ last.ret.id # last.recv.id
        ELSE /\ last.calls = <<>>
             /\ IsFailure(last.ret)
             /\ last.ret._error = last.recv._error
             /\ last.ret._data = Undefined

\* C5 witness: apply on Success(0) with f returning a defined value
C5_Witness ==
    /\ Called("apply")
    /\ last.recv._data = [typ |-> "number", n |-> 0]
    /\ Len(last.calls) = 1
    /\ last.ret._data = [typ |-> "string", s |-> "test"]

\* C6: fold(onData, onError) calls exactly one handler, exactly once: onData
\* with the value on a Success, onError with the error on a Failure, and
\* returns what that handler returned, unwrapped.
C6_Fold ==
    Called("fold") =>
        /\ Len(last.calls) = 1
        /\ last.ret = last.calls[1].out
        /\ IsSuccess(last.recv) =>
            last.calls[1].fn = "onData" /\ last.calls[1].arg = last.recv._data
        /\ IsFailure(last.recv) =>
            last.calls[1].fn = "onError" /\ last.calls[1].arg = last.recv._error

\* C6 witness: fold on a Success wrapping undefined called onData
C6_Witness ==
    /\ Called("fold")
    /\ IsSuccess(last.recv)
    /\ last.recv._data = Undefined
    /\ last.calls[1].fn = "onData"

C9_ApplyOnFailure ==
    Called("applyOnFailure") =>
        IF IsFailure(last.recv)
        THEN /\ Len(last.calls) = 1
             /\ last.calls[1].fn = "func"
             /\ last.calls[1].arg = last.recv._error
             /\ last.ret._error = last.calls[1].out
             /\ last.ret._data = Undefined
        ELSE /\ last.calls = <<>>
             /\ last.ret._error = Undefined
             /\ last.ret._data = last.recv._data

\* C9 witness: f mapped the error of a Failure to another error
C9_Witness ==
    /\ Called("applyOnFailure")
    /\ IsFailure(last.recv)
    /\ last.ret._error # last.recv._error
    /\ last.ret._error = last.calls[1].out

\* C10: onFailurePeek(f) calls f exactly once with the error when the
\* receiver is a Failure, never when it is a Success, and returns the
\* receiver itself.
C10_OnFailurePeek ==
    Called("onFailurePeek") =>
        /\ IsFailure(last.recv) => last.calls = <<Call("func", last.recv._error, Undefined)>>
        /\ IsSuccess(last.recv) => last.calls = <<>>
        /\ last.ret = last.recv

\* C10 witness: onFailurePeek on a Failure called f with the error
C10_Witness ==
    /\ Called("onFailurePeek")
    /\ IsFailure(last.recv)
    /\ Len(last.calls) = 1

\* C11, as stated: the outcome of applying the function fromNullable(d)
\* returned reflects d as it was when fromNullable was called, even if d was
\* changed since.
C11_StepOneDecides ==
    Called("fromNullableClosure") =>
        (IsFailure(last.ret) <=> EmptyAsStated(last.recv.initial))

\* C11, amended: the function fromNullable(d) returned inspects d when it is
\* applied: the outcome reflects d as it is at that moment, so it reflects d
\* as it was at the call of fromNullable if d is unchanged since; and a second
\* application yields the tag of the first if d is the same at both.
C11_StepTwoDecides ==
    [][FromNullableClosure =>
        /\ IsFailure(last'.ret) <=> EmptyAsStated(closure.data)
        /\ IsSuccess(last'.ret) => last'.ret._data = closure.data
        /\ closure.data = closure.initial =>
            (IsFailure(last'.ret) <=> EmptyAsStated(closure.initial))
        /\ (Called("fromNullableClosure") /\ last.args.value = closure.data) =>
            (IsFailure(last'.ret) <=> IsFailure(last.ret))]_vars

\* C11 witness: the array was empty at fromNullable, an element was pushed,
\* then the function was applied and gave a Success
C11_Witness ==
    /\ Called("fromNullableClosure")
    /\ last.recv.initial = [typ |-> "array", len |-> 0, keys |-> 0]
    /\ last.recv.data = [typ |-> "array", len |-> 1, keys |-> 1]
    /\ IsSuccess(last.ret)

\* what onFailureReturn(newValue, e => e.status === statusFilter) returns on
\* the receiver of the last call, or onFailureReturn(newValue) when no
\* statusFilter was supplied
GenericRecovery ==
    onFailureReturn(last.recv, last.ret.id, last.args.value,
                    last.args.statusFilter # Undefined,
                    /\ last.args.statusFilter # Undefined
                    /\ IsFailure(last.recv)
                    /\ last.recv._error.status = last.args.statusFilter.n)

\* C12: onErrorReturn(newValue, statusFilter) yields the tag and payload of
\* onFailureReturn(newValue, e => e.status === statusFilter) for every Result,
\* newValue and supplied numeric statusFilter, 0 included, and those of
\* onFailureReturn(newValue) when no statusFilter is supplied.
C12_SameAsGeneric ==
    Called("onErrorReturn") =>
        /\ last.ret._error = GenericRecovery.ret._error
        /\ last.ret._data = GenericRecovery.ret._data

====
